---- MODULE Spec2Model ----
(***************************************************************************)
(* Model of core/embed/rust/src/ui/component/text.rs: the format-string    *)
(* Tokenizer, the Text facade with its bounded argument table, the Op      *)
(* stream, Span::fit_horizontally, TextLayout::layout_op_stream /          *)
(* layout_text and the LayoutSink events they emit.                        *)
(*                                                                         *)
(* Byte strings are sequences of byte values (naturals).  Fonts are        *)
(* records carrying the metrics the layout code asks of them               *)
(* (text_width of one byte, line_height).                                  *)
(***************************************************************************)
EXTENDS Integers, Sequences, FiniteSets, TLC

VARIABLES
    pc,             \* position of the running call
    layout,         \* the working TextLayout copy (`self` of layout_op_stream)
    ops,            \* the Op iterator handed to layout_op_stream
    cursor,         \* the cursor threaded through the pass
    sink,           \* the LayoutSink events received so far, in order
    consumed,       \* the Ops pulled from the iterator so far, in order
    total_processed_chars,
    text,           \* layout_text: the text of the running call
    remaining_text, \* layout_text: the unconsumed suffix
    text_mark,      \* Len(sink) when the running layout_text call began
    text_fit,       \* the LayoutFit of the last finished layout_text call
    last_span,      \* the Span of the last loop iteration of layout_text
    scan,           \* layout_text: how often each byte of the text was measured
    fit,            \* the LayoutFit returned by layout_op_stream
    format,         \* Text.format
    args,           \* Text.args
    stored,         \* Text.layout
    last_insert,    \* the Result of the last `self.args.insert(key, value)`
    tok,            \* Tokenizer under test: [input, pos]
    tokens,         \* the tokens it has yielded
    skip_st,        \* skip_n_text_bytes under test: [ops, skip_bytes, skipped, out]
    caller,         \* the owner of a layout painted repeatedly: its ops, the last sink
    span_st         \* Span::fit_horizontally under test: arguments and loop state

vars == <<pc, layout, ops, cursor, sink, consumed, total_processed_chars, text,
          remaining_text, text_mark, text_fit, last_span, scan, fit, format,
          args,
          stored, last_insert, tok, tokens, skip_st, caller, span_st>>

layoutVars == <<layout, ops, cursor, sink, consumed, total_processed_chars, text,
                remaining_text, text_mark, text_fit, last_span, scan, fit>>
textVars == <<format, args, stored, last_insert>>
tokVars == <<tok, tokens>>
auxVars == <<caller, span_st>>

None == [kind |-> "None"]

(***************************************************************************)
(* Bounds of the model.                                                    *)
(***************************************************************************)
MaxLen == 3        \* longest text of a single-Text op stream
MaxWidth == 3      \* widest bounds (bounds.x1 - bounds.x0)
MaxOps == 3        \* longest op stream of several ops
MaxFmtLen == 4     \* longest enumerated format string
MaxSkip == 4       \* largest skip_bytes

(***************************************************************************)
(* Bytes.                                                                  *)
(***************************************************************************)
ASCII_LF == 10
ASCII_CR == 13
ASCII_SPACE == 32
ASCII_HYPHEN == 45
ASCII_OPEN_BRACE == 123
ASCII_CLOSED_BRACE == 125

RECURSIVE SeqsUpTo(_, _)
SeqsUpTo(S, n) ==
    IF n = 0 THEN {<<>>}
    ELSE LET shorter == SeqsUpTo(S, n - 1)
         IN  shorter \cup {Append(s, b) : s \in {t \in shorter : Len(t) = n - 1}, b \in S}

Min(a, b) == IF a < b THEN a ELSE b

\* &s[from..to] with 0-based, end-exclusive indices
Slice(s, from, to) == SubSeq(s, from + 1, to)

(***************************************************************************)
(* display::Font: an opaque font, modelled by its metrics.                 *)
(***************************************************************************)
Font(name, cw, sw, hw, lh) == [name |-> name, cw |-> cw, sw |-> sw, hw |-> hw, lh |-> lh]

FONT_NORMAL == Font("normal", 1, 1, 1, 2)
FONT_BOLD == Font("bold", 2, 1, 2, 3)
FONT_MONO == Font("mono", 2, 2, 2, 1)

\* Font::text_width(&[ch])
TextWidth(font, ch) ==
    IF ch = ASCII_HYPHEN THEN font.hw
    ELSE IF ch = ASCII_SPACE THEN font.sw
    ELSE font.cw

\* Font::line_height()
LineHeight(font) == font.lh

(***************************************************************************)
(* Span::fit_horizontally                                                  *)
(***************************************************************************)
is_whitespace(ch) == ch = ASCII_SPACE \/ ch = ASCII_LF \/ ch = ASCII_CR

Span(length, skip, ax, ay, hyphen) ==
    [length |-> length, skip_next_chars |-> skip, advance |-> [x |-> ax, y |-> ay],
     insert_hyphen_before_line_break |-> hyphen]

\* A variant with a strict comparison.
have_space_for_break_strict(span_width, char_width, hyphen_width, max_width) ==
    span_width + char_width + hyphen_width < max_width

\* A variant that leaves the hyphen's width out.
have_space_for_break_without_hyphen(span_width, char_width, hyphen_width, max_width) ==
    span_width + char_width <= max_width

\* `have_space_for_break`
have_space_for_break(span_width, char_width, hyphen_width, max_width) ==
    span_width + char_width + hyphen_width <= max_width

\* A variant that lets every word be broken.
can_break_word_always(breaking, found_any_whitespace) == TRUE

\* `can_break_word`
can_break_word(breaking, found_any_whitespace) ==
    breaking = "BreakWordsAndInsertHyphen" \/ ~found_any_whitespace

\* One pass of the `for (i, &ch) in text.iter().enumerate()` loop, from index
\* i (0-based) with the loop's running state.
RECURSIVE FitLoop(_, _, _, _, _, _, _, _, _)
FitLoop(txt, max_width, text_font, hyphen_width, breaking, i, line, span_width, found_any_whitespace) ==
    IF i >= Len(txt)
    THEN \* The whole text is fitting.
         Span(Len(txt), 0, span_width, 0, FALSE)
    ELSE
    LET ch == txt[i + 1]
        char_width == TextWidth(text_font, ch)
    IN  IF is_whitespace(ch)
        THEN LET brk == Span(i, 1, span_width,
                             IF ch = ASCII_CR THEN LineHeight(text_font) \div 2
                                              ELSE line.advance.y,
                             FALSE)
             IN  IF ch = ASCII_LF \/ ch = ASCII_CR
                 THEN brk
                 ELSE FitLoop(txt, max_width, text_font, hyphen_width, breaking,
                              i + 1, brk, span_width + char_width, TRUE)
        ELSE IF span_width + char_width > max_width
        THEN line
        ELSE LET line2 == IF /\ have_space_for_break(span_width, char_width, hyphen_width, max_width)
                             /\ can_break_word(breaking, found_any_whitespace)
                          THEN Span(i + 1, 0, span_width + char_width, line.advance.y, TRUE)
                          ELSE line
             IN  FitLoop(txt, max_width, text_font, hyphen_width, breaking,
                         i + 1, line2, span_width + char_width, found_any_whitespace)

\* A variant that never returns the zero-progress break: it hands out the
\* first glyph instead.
fit_horizontally_min_one_glyph(txt, max_width, text_font, hyphen_font, breaking) ==
    LET s == FitLoop(txt, max_width, text_font, TextWidth(hyphen_font, ASCII_HYPHEN), breaking,
                     0, Span(0, 0, 0, LineHeight(text_font), FALSE), 0, FALSE)
    IN  IF s.length = 0 /\ s.skip_next_chars = 0 /\ txt # <<>>
        THEN Span(1, 0, TextWidth(text_font, txt[1]), LineHeight(text_font), FALSE)
        ELSE s

fit_horizontally(txt, max_width, text_font, hyphen_font, breaking) ==
    FitLoop(txt, max_width, text_font, TextWidth(hyphen_font, ASCII_HYPHEN), breaking,
            0, Span(0, 0, 0, LineHeight(text_font), FALSE), 0, FALSE)

\* How many bytes of txt the loop measures (`text_font.text_width(&[ch])`)
\* before it returns: up to and including the LF or CR or the overflowing
\* glyph, else all of them.
RECURSIVE MeasureLoop(_, _, _, _, _)
MeasureLoop(txt, max_width, text_font, i, span_width) ==
    IF i >= Len(txt)
    THEN i
    ELSE
    LET ch == txt[i + 1]
        char_width == TextWidth(text_font, ch)
    IN  IF is_whitespace(ch)
        THEN IF ch = ASCII_LF \/ ch = ASCII_CR
             THEN i + 1
             ELSE MeasureLoop(txt, max_width, text_font, i + 1, span_width + char_width)
        ELSE IF span_width + char_width > max_width
        THEN i + 1
        ELSE MeasureLoop(txt, max_width, text_font, i + 1, span_width + char_width)

measured_bytes(txt, max_width, text_font) == MeasureLoop(txt, max_width, text_font, 0, 0)

(***************************************************************************)
(* Token, Tokenizer                                                        *)
(***************************************************************************)
Literal(bytes) == [kind |-> "Literal", bytes |-> bytes]
Argument(bytes) == [kind |-> "Argument", bytes |-> bytes]

\* Tokenizer::new
TokenizerNew(input) == [input |-> input, pos |-> 0]

\* A variant that yields the unterminated fragment as an argument.
RECURSIVE ArgumentLoop_yields_fragment(_, _, _)
ArgumentLoop_yields_fragment(input, open, j) ==
    IF j >= Len(input)
    THEN [token |-> Argument(Slice(input, open + 1, Len(input))), pos |-> Len(input)]
    ELSE IF input[j + 1] = ASCII_CLOSED_BRACE
    THEN [token |-> Argument(Slice(input, open + 1, j)), pos |-> j + 1]
    ELSE ArgumentLoop_yields_fragment(input, open, j + 1)

\* The `loop` of the argument arm: self.inner.next() until '}' or the end.
RECURSIVE ArgumentLoop(_, _, _)
ArgumentLoop(input, open, j) ==
    IF j >= Len(input)
    THEN [token |-> None, pos |-> Len(input)]
    ELSE IF input[j + 1] = ASCII_CLOSED_BRACE
    THEN [token |-> Argument(Slice(input, open + 1, j)), pos |-> j + 1]
    ELSE ArgumentLoop(input, open, j + 1)

\* The `loop` of the literal arm: self.inner.peek() until '{' or the end.
RECURSIVE LiteralLoop(_, _, _)
LiteralLoop(input, start, j) ==
    IF j >= Len(input)
    THEN [token |-> Literal(Slice(input, start, Len(input))), pos |-> j]
    ELSE IF input[j + 1] = ASCII_OPEN_BRACE
    THEN [token |-> Literal(Slice(input, start, j)), pos |-> j]
    ELSE LiteralLoop(input, start, j + 1)

\* Tokenizer::next: the token (or None) and the iterator's new position.
TokenizerNext(t) ==
    IF t.pos >= Len(t.input)
    THEN [token |-> None, pos |-> t.pos]
    ELSE IF t.input[t.pos + 1] = ASCII_OPEN_BRACE
    THEN ArgumentLoop(t.input, t.pos, t.pos + 1)
    ELSE LiteralLoop(t.input, t.pos, t.pos + 1)

(***************************************************************************)
(* Op                                                                      *)
(***************************************************************************)
OpText(bytes) == [op |-> "Text", text |-> bytes]
OpColor(color) == [op |-> "Color", color |-> color]
OpFont(font) == [op |-> "Font", font |-> font]

(***************************************************************************)
(* TextLayout                                                              *)
(***************************************************************************)
Rect(x0, y0, x1, y1) == [x0 |-> x0, y0 |-> y0, x1 |-> x1, y1 |-> y1]
Point(x, y) == [x |-> x, y |-> y]

\* TextLayout::new
TextLayoutNew(bounds) ==
    [bounds |-> bounds,
     background_color |-> "BG",
     text_color |-> "FG",
     text_font |-> FONT_NORMAL,
     line_breaking |-> "BreakAtWhitespace",
     hyphen_font |-> FONT_BOLD,
     hyphen_color |-> "GREY_LIGHT",
     page_breaking |-> "CutAndInsertEllipsis",
     ellipsis_font |-> FONT_BOLD,
     ellipsis_color |-> "GREY_LIGHT"]

\* TextLayout::initial_cursor
initial_cursor(lay) ==
    Point(lay.bounds.x0, lay.bounds.y0 + LineHeight(lay.text_font))

Fitting(n) == [kind |-> "Fitting", processed_chars |-> n]
OutOfBounds(n) == [kind |-> "OutOfBounds", processed_chars |-> n]

(***************************************************************************)
(* LayoutSink: the events, as the sink receives them.  A text, hyphen or   *)
(* ellipsis event carries the cursor and what the renderer reads of the    *)
(* layout it is handed.                                                    *)
(***************************************************************************)
EvText(cur, lay, bytes) ==
    [ev |-> "text", cursor |-> cur, font |-> lay.text_font, color |-> lay.text_color,
     text |-> bytes]
EvHyphen(cur, lay) ==
    [ev |-> "hyphen", cursor |-> cur, font |-> lay.hyphen_font, color |-> lay.hyphen_color]
EvEllipsis(cur, lay) ==
    [ev |-> "ellipsis", cursor |-> cur, font |-> lay.ellipsis_font, color |-> lay.ellipsis_color]
EvLineBreak(cur) == [ev |-> "line_break", cursor |-> cur]
EvOutOfBounds == [ev |-> "out_of_bounds"]

(***************************************************************************)
(* TextLayout::layout_text: one iteration of the `while` loop.             *)
(***************************************************************************)
\* A variant that appends the ellipsis after a hyphen too.
should_append_ellipsis_after_hyphen(lay, span, rem) ==
    /\ rem # <<>>
    /\ lay.page_breaking = "CutAndInsertEllipsis"

\* `should_append_ellipsis`, inside `if !remaining_text.is_empty()`
should_append_ellipsis(lay, span, rem) ==
    /\ rem # <<>>
    /\ lay.page_breaking = "CutAndInsertEllipsis"
    /\ ~span.insert_hyphen_before_line_break

\* A variant that forgets `cursor.y += span.advance.y`.
next_line_cursor_no_advance(lay, cur, span) == Point(lay.bounds.x0, cur.y)

\* "Advance the cursor to the beginning of the next line."
next_line_cursor(lay, cur, span) == Point(lay.bounds.x0, cur.y + span.advance.y)

\* A variant that reports out_of_bounds only inside
\* `if !remaining_text.is_empty()`.
overflow_events_inside_if(lay, cur, span, rem) ==
    IF rem # <<>>
    THEN (IF lay.page_breaking = "CutAndInsertEllipsis" /\ ~span.insert_hyphen_before_line_break
          THEN <<EvEllipsis(cur, lay)>> ELSE <<>>) \o <<EvOutOfBounds>>
    ELSE <<>>

\* What the overflow branch reports: the ellipsis, if it should be appended,
\* then out_of_bounds.
overflow_events(lay, cur, span, rem) ==
    (IF should_append_ellipsis(lay, span, rem) THEN <<EvEllipsis(cur, lay)>> ELSE <<>>)
        \o <<EvOutOfBounds>>

\* The vertical-space test of the line-breaking branch.
is_out_of_bounds(lay, cur, span) == cur.y + span.advance.y > lay.bounds.y1

\* A variant that hands fit_horizontally the whole `text` of the call in
\* every iteration, instead of `remaining_text`.
layout_text_body_fits_whole_text(lay, cur, rem) ==
    LET span == fit_horizontally(text, lay.bounds.x1 - cur.x, lay.text_font,
                                 lay.hyphen_font, lay.line_breaking)
        fitted == [text |-> text,
                   measured |-> measured_bytes(text, lay.bounds.x1 - cur.x, lay.text_font)]
        ev_text == <<EvText(cur, lay, Slice(text, 0, span.length))>>
        rem2 == IF span.length + span.skip_next_chars >= Len(rem) THEN <<>>
                ELSE Slice(rem, span.length + span.skip_next_chars, Len(rem))
        cur2 == [cur EXCEPT !.x = cur.x + span.advance.x]
        ev_hyphen == IF span.insert_hyphen_before_line_break
                     THEN <<EvHyphen(cur2, lay)>> ELSE <<>>
        cur3 == next_line_cursor(lay, cur2, span)
    IN  IF ~(span.advance.y > 0)
        THEN [span |-> span, fitted |-> fitted, ends |-> "continue", remaining |-> rem2,
              cursor |-> cur2, events |-> ev_text]
        ELSE IF is_out_of_bounds(lay, cur2, span)
        THEN [span |-> span, fitted |-> fitted, ends |-> "out_of_bounds", remaining |-> rem2,
              cursor |-> cur2,
              events |-> ev_text \o ev_hyphen \o overflow_events(lay, cur2, span, rem2)]
        ELSE [span |-> span, fitted |-> fitted, ends |-> "line_break", remaining |-> rem2,
              cursor |-> cur3, events |-> ev_text \o ev_hyphen \o <<EvLineBreak(cur3)>>]

\* A variant that continues right after the span and leaves the bytes the span
\* says to skip in `remaining_text`.
layout_text_body_keeps_skipped(lay, cur, rem) ==
    LET span == fit_horizontally(rem, lay.bounds.x1 - cur.x, lay.text_font,
                                 lay.hyphen_font, lay.line_breaking)
        fitted == [text |-> rem,
                   measured |-> measured_bytes(rem, lay.bounds.x1 - cur.x, lay.text_font)]
        ev_text == <<EvText(cur, lay, Slice(rem, 0, span.length))>>
        rem2 == Slice(rem, span.length, Len(rem))
        cur2 == [cur EXCEPT !.x = cur.x + span.advance.x]
        ev_hyphen == IF span.insert_hyphen_before_line_break
                     THEN <<EvHyphen(cur2, lay)>> ELSE <<>>
        cur3 == next_line_cursor(lay, cur2, span)
    IN  IF ~(span.advance.y > 0)
        THEN [span |-> span, fitted |-> fitted, ends |-> "continue", remaining |-> rem2,
              cursor |-> cur2, events |-> ev_text]
        ELSE IF is_out_of_bounds(lay, cur2, span)
        THEN [span |-> span, fitted |-> fitted, ends |-> "out_of_bounds", remaining |-> rem2,
              cursor |-> cur2,
              events |-> ev_text \o ev_hyphen \o overflow_events(lay, cur2, span, rem2)]
        ELSE [span |-> span, fitted |-> fitted, ends |-> "line_break", remaining |-> rem2,
              cursor |-> cur3, events |-> ev_text \o ev_hyphen \o <<EvLineBreak(cur3)>>]

\* The loop body from the state (lay, cur, rem): the span, the events
\* reported, the cursor and remaining text afterwards, and how the body ends:
\* "continue" (no line break), "line_break" or "out_of_bounds" (return).
layout_text_body(lay, cur, rem) ==
    LET span == fit_horizontally(rem, lay.bounds.x1 - cur.x, lay.text_font,
                                 lay.hyphen_font, lay.line_breaking)
        fitted == [text |-> rem,
                   measured |-> measured_bytes(rem, lay.bounds.x1 - cur.x, lay.text_font)]
        ev_text == <<EvText(cur, lay, Slice(rem, 0, span.length))>>
        rem2 == Slice(rem, span.length + span.skip_next_chars, Len(rem))
        cur2 == [cur EXCEPT !.x = cur.x + span.advance.x]
        ev_hyphen == IF span.insert_hyphen_before_line_break
                     THEN <<EvHyphen(cur2, lay)>> ELSE <<>>
        cur3 == next_line_cursor(lay, cur2, span)
    IN  IF ~(span.advance.y > 0)
        THEN [span |-> span, fitted |-> fitted, ends |-> "continue", remaining |-> rem2, cursor |-> cur2,
              events |-> ev_text]
        ELSE IF is_out_of_bounds(lay, cur2, span)
        THEN [span |-> span, fitted |-> fitted, ends |-> "out_of_bounds", remaining |-> rem2, cursor |-> cur2,
              events |-> ev_text \o ev_hyphen \o overflow_events(lay, cur2, span, rem2)]
        ELSE [span |-> span, fitted |-> fitted, ends |-> "line_break", remaining |-> rem2, cursor |-> cur3,
              events |-> ev_text \o ev_hyphen \o <<EvLineBreak(cur3)>>]

(***************************************************************************)
(* Text: the argument table and the resolver of layout_content.            *)
(***************************************************************************)
MAX_ARGUMENTS == 6

KeyMono == <<109, 111, 110, 111>>
KeyBold == <<98, 111, 108, 100>>
KeyNormal == <<110, 111, 114, 109, 97, 108>>
KeyAmount == <<97, 109, 111, 117, 110, 116>>

\* heapless::LinearMap::insert: "ok" (a new or replaced entry) or "err"
\* (the map is full and the key is new), with the map afterwards.
LinearMapInsert(map, key, value) ==
    IF key \in DOMAIN map
    THEN [res |-> "ok", map |-> [map EXCEPT ![key] = value]]
    ELSE IF Cardinality(DOMAIN map) >= MAX_ARGUMENTS
    THEN [res |-> "err", map |-> map]
    ELSE [res |-> "ok",
          map |-> [k \in DOMAIN map \cup {key} |-> IF k = key THEN value ELSE map[k]]]

\* A variant that makes room in a full map by dropping one of its entries.
with_evicts(map, key, value) ==
    LET r == LinearMapInsert(map, key, value)
    IN  IF r.res = "err"
        THEN LET old == CHOOSE k \in DOMAIN map : TRUE
             IN  [k \in (DOMAIN map \ {old}) \cup {key} |-> IF k = key THEN value ELSE map[k]]
        ELSE r.map

\* Text::with, on the argument table
with(map, key, value) ==
    LET r == LinearMapInsert(map, key, value)
    IN  IF r.res = "err"
        THEN r.map      \* Map is full, ignore.
        ELSE r.map

\* A variant that looks the argument table up before the font keywords.
resolve_table_first(token, map) ==
    IF token.kind = "Literal" THEN OpText(token.bytes)
    ELSE IF token.bytes \in DOMAIN map THEN OpText(map[token.bytes])
    ELSE IF token.bytes = KeyMono THEN OpFont(FONT_MONO)
    ELSE IF token.bytes = KeyBold THEN OpFont(FONT_BOLD)
    ELSE IF token.bytes = KeyNormal THEN OpFont(FONT_NORMAL)
    ELSE None

\* The closure of Text::layout_content: Some(op) or None.
resolve(token, map) ==
    IF token.kind = "Literal" THEN OpText(token.bytes)
    ELSE IF token.bytes = KeyMono THEN OpFont(FONT_MONO)
    ELSE IF token.bytes = KeyBold THEN OpFont(FONT_BOLD)
    ELSE IF token.bytes = KeyNormal THEN OpFont(FONT_NORMAL)
    ELSE IF token.bytes \in DOMAIN map THEN OpText(map[token.bytes])
    ELSE None

(***************************************************************************)
(* The Op iterator of a pass: a given sequence of Ops ("seq"), or          *)
(* Tokenizer::new(format).flat_map(resolve) ("fmt"), which pulls tokens    *)
(* lazily.  OpsNext is Iterator::next: the item (or None) and the iterator *)
(* afterwards.                                                             *)
(***************************************************************************)
RECURSIVE FlatMapNext(_, _)
FlatMapNext(t, map) ==
    LET n == TokenizerNext(t)
        t2 == [t EXCEPT !.pos = n.pos]
    IN  IF n.token = None
        THEN [item |-> None, it |-> [kind |-> "fmt", tokenizer |-> t2]]
        ELSE LET r == resolve(n.token, map)
             IN  IF r = None
                 THEN FlatMapNext(t2, map)
                 ELSE [item |-> r, it |-> [kind |-> "fmt", tokenizer |-> t2]]

OpsNext(it, map) ==
    IF it.kind = "seq"
    THEN IF it.rest = <<>>
         THEN [item |-> None, it |-> it]
         ELSE [item |-> Head(it.rest), it |-> [it EXCEPT !.rest = Tail(it.rest)]]
    ELSE FlatMapNext(it.tokenizer, map)

(***************************************************************************)
(* TextLayout::layout_op_stream and layout_text, step by step.             *)
(* pc = "stream": at the head of `for op in ops`; pc = "text": at the head *)
(* of layout_text's `while`; pc = "done": layout_op_stream has returned.   *)
(***************************************************************************)
\* The measurement record of a layout_text call: per byte of its text the
\* number of fit_horizontally calls that measured it, the number of loop
\* iterations so far, and whether one of them consumed no byte.
ScanNew(txt) ==
    [counts |-> [k \in 1..Len(txt) |-> 0], iterations |-> 0, stalled |-> FALSE,
     skipped |-> <<>>]

\* The record after the iteration b: the call of fit_horizontally was handed
\* b.fitted.text, a suffix of the text, and measured its first
\* b.fitted.measured bytes.
ScanAfter(sc, txt, b) ==
    LET from == Len(txt) - Len(b.fitted.text)
    IN  [counts |-> [k \in 1..Len(txt) |->
                        IF k > from /\ k <= from + b.fitted.measured
                        THEN sc.counts[k] + 1 ELSE sc.counts[k]],
         iterations |-> sc.iterations + 1,
         stalled |-> sc.stalled \/ b.span.length + b.span.skip_next_chars = 0,
         skipped |-> Append(sc.skipped,
                            Slice(b.fitted.text, b.span.length,
                                  b.span.length + b.span.skip_next_chars))]

otherVars == <<format, args, stored, last_insert, tok, tokens, skip_st, caller, span_st>>

\* Op::Color(color) => self.text_color = color
StreamColor ==
    /\ pc = "stream"
    /\ LET n == OpsNext(ops, args)
       IN  /\ n.item # None
           /\ n.item.op = "Color"
           /\ ops' = n.it
           /\ consumed' = Append(consumed, n.item)
           /\ layout' = [layout EXCEPT !.text_color = n.item.color]
    /\ UNCHANGED <<pc, cursor, sink, total_processed_chars, text, remaining_text,
                   text_mark, text_fit, last_span, scan, fit>>
    /\ UNCHANGED otherVars

\* A variant that pulls the Font op and leaves the working font as it was.
StreamFont_not_applied ==
    /\ pc = "stream"
    /\ LET n == OpsNext(ops, args)
       IN  /\ n.item # None
           /\ n.item.op = "Font"
           /\ ops' = n.it
           /\ consumed' = Append(consumed, n.item)
    /\ UNCHANGED <<pc, layout, cursor, sink, total_processed_chars, text, remaining_text,
                   text_mark, text_fit, last_span, scan, fit>>
    /\ UNCHANGED otherVars

\* A variant that writes the font through to the owner's layout as well.
StreamFont_writes_stored ==
    /\ pc = "stream"
    /\ LET n == OpsNext(ops, args)
       IN  /\ n.item # None
           /\ n.item.op = "Font"
           /\ ops' = n.it
           /\ consumed' = Append(consumed, n.item)
           /\ layout' = [layout EXCEPT !.text_font = n.item.font]
           /\ stored' = IF stored = None THEN stored
                        ELSE [stored EXCEPT !.text_font = n.item.font]
    /\ UNCHANGED <<pc, cursor, sink, total_processed_chars, text, remaining_text,
                   text_mark, text_fit, last_span, scan, fit>>
    /\ UNCHANGED <<format, args, last_insert, tok, tokens, skip_st, caller, span_st>>

\* Op::Font(font) => self.text_font = font
StreamFont ==
    /\ pc = "stream"
    /\ LET n == OpsNext(ops, args)
       IN  /\ n.item # None
           /\ n.item.op = "Font"
           /\ ops' = n.it
           /\ consumed' = Append(consumed, n.item)
           /\ layout' = [layout EXCEPT !.text_font = n.item.font]
    /\ UNCHANGED <<pc, cursor, sink, total_processed_chars, text, remaining_text,
                   text_mark, text_fit, last_span, scan, fit>>
    /\ UNCHANGED otherVars

\* Op::Text(text) => self.layout_text(text, cursor, sink): the call begins
StreamText ==
    /\ pc = "stream"
    /\ LET n == OpsNext(ops, args)
       IN  /\ n.item # None
           /\ n.item.op = "Text"
           /\ ops' = n.it
           /\ consumed' = Append(consumed, n.item)
           /\ text' = n.item.text
           /\ remaining_text' = n.item.text
    /\ text_mark' = Len(sink)
    /\ text_fit' = None
    /\ last_span' = None
    /\ scan' = ScanNew(OpsNext(ops, args).item.text)
    /\ pc' = "text"
    /\ UNCHANGED <<layout, cursor, sink, total_processed_chars, fit>>
    /\ UNCHANGED otherVars

\* The iterator is exhausted: LayoutFit::Fitting { total_processed_chars }
StreamEnd ==
    /\ pc = "stream"
    /\ LET n == OpsNext(ops, args)
       IN  /\ n.item = None
           /\ ops' = n.it
    /\ fit' = Fitting(total_processed_chars)
    /\ pc' = "done"
    /\ UNCHANGED <<layout, cursor, sink, consumed, total_processed_chars, text,
                   remaining_text, text_mark, text_fit, last_span, scan>>
    /\ UNCHANGED otherVars

\* A loop iteration of layout_text whose span does not break the line.
SpanContinue ==
    /\ pc = "text"
    /\ remaining_text # <<>>
    /\ LET b == layout_text_body(layout, cursor, remaining_text)
       IN  /\ b.ends = "continue"
           /\ sink' = sink \o b.events
           /\ remaining_text' = b.remaining
           /\ cursor' = b.cursor
           /\ last_span' = b.span
           /\ scan' = ScanAfter(scan, text, b)
    /\ UNCHANGED <<pc, layout, ops, consumed, total_processed_chars, text, text_mark,
                   text_fit, fit>>
    /\ UNCHANGED otherVars

\* A loop iteration of layout_text that advances to the next line.
SpanLineBreak ==
    /\ pc = "text"
    /\ remaining_text # <<>>
    /\ LET b == layout_text_body(layout, cursor, remaining_text)
       IN  /\ b.ends = "line_break"
           /\ sink' = sink \o b.events
           /\ remaining_text' = b.remaining
           /\ cursor' = b.cursor
           /\ last_span' = b.span
           /\ scan' = ScanAfter(scan, text, b)
    /\ UNCHANGED <<pc, layout, ops, consumed, total_processed_chars, text, text_mark,
                   text_fit, fit>>
    /\ UNCHANGED otherVars

\* A variant that reports the overflow and goes on with the next op.
SpanOutOfBounds_goes_on ==
    /\ pc = "text"
    /\ remaining_text # <<>>
    /\ LET b == layout_text_body(layout, cursor, remaining_text)
           processed == Len(text) - Len(b.remaining)
       IN  /\ b.ends = "out_of_bounds"
           /\ sink' = sink \o b.events
           /\ remaining_text' = b.remaining
           /\ cursor' = b.cursor
           /\ last_span' = b.span
           /\ scan' = ScanAfter(scan, text, b)
           /\ text_fit' = OutOfBounds(processed)
           /\ total_processed_chars' = total_processed_chars + processed
    /\ pc' = "stream"
    /\ UNCHANGED <<layout, ops, consumed, text, text_mark, fit>>
    /\ UNCHANGED otherVars

\* A loop iteration of layout_text that runs out of vertical space:
\* layout_text returns OutOfBounds, and so does layout_op_stream.
SpanOutOfBounds ==
    /\ pc = "text"
    /\ remaining_text # <<>>
    /\ LET b == layout_text_body(layout, cursor, remaining_text)
           processed == Len(text) - Len(b.remaining)
       IN  /\ b.ends = "out_of_bounds"
           /\ sink' = sink \o b.events
           /\ remaining_text' = b.remaining
           /\ cursor' = b.cursor
           /\ last_span' = b.span
           /\ scan' = ScanAfter(scan, text, b)
           /\ text_fit' = OutOfBounds(processed)
           /\ total_processed_chars' = total_processed_chars + processed
           /\ fit' = OutOfBounds(total_processed_chars + processed)
    /\ pc' = "done"
    /\ UNCHANGED <<layout, ops, consumed, text, text_mark>>
    /\ UNCHANGED otherVars

\* A variant that stores the call's count instead of adding it.
TextFitting_overwrites_total ==
    /\ pc = "text"
    /\ remaining_text = <<>>
    /\ text_fit' = Fitting(Len(text))
    /\ total_processed_chars' = Len(text)
    /\ pc' = "stream"
    /\ UNCHANGED <<layout, ops, cursor, sink, consumed, text, remaining_text, text_mark,
                   last_span, scan, fit>>
    /\ UNCHANGED otherVars

\* remaining_text is empty: layout_text returns Fitting { text.len() }
TextFitting ==
    /\ pc = "text"
    /\ remaining_text = <<>>
    /\ text_fit' = Fitting(Len(text))
    /\ total_processed_chars' = total_processed_chars + Len(text)
    /\ pc' = "stream"
    /\ UNCHANGED <<layout, ops, cursor, sink, consumed, text, remaining_text, text_mark,
                   last_span, scan, fit>>
    /\ UNCHANGED otherVars

LayoutNext ==
    \/ StreamColor
    \/ StreamFont
    \/ StreamText
    \/ StreamEnd
    \/ SpanContinue
    \/ SpanLineBreak
    \/ SpanOutOfBounds
    \/ TextFitting

(***************************************************************************)
(* SpecLayout: layout_op_stream over given Op sequences, from the initial  *)
(* cursor of the layout.                                                   *)
(***************************************************************************)
Alphabet == {97, ASCII_SPACE, ASCII_LF, ASCII_CR}
Texts == SeqsUpTo(Alphabet, MaxLen)

LineBreakings == {"BreakAtWhitespace", "BreakWordsAndInsertHyphen"}
PageBreakings == {"Cut", "CutAndInsertEllipsis"}

\* A layout of `rows` text lines of text_font tf, w pixels wide.
LayoutOf(w, rows, tf, hf, lb, pb) ==
    [TextLayoutNew(Rect(0, 0, w, rows * LineHeight(tf))) EXCEPT
        !.text_font = tf, !.hyphen_font = hf, !.line_breaking = lb, !.page_breaking = pb]

\* One Text op, every layout.
\* <<text_font, hyphen_font>>: glyphs narrower than, as wide as and wider than
\* the hyphen; line heights of 1, 2 and 3.
FontPairs ==
    {<<FONT_NORMAL, FONT_NORMAL>>, <<FONT_NORMAL, FONT_BOLD>>, <<FONT_BOLD, FONT_NORMAL>>,
     <<FONT_MONO, FONT_BOLD>>}

SingleTextInputs ==
    {[ops |-> <<OpText(t)>>, layout |-> LayoutOf(w, rows, fp[1], fp[2], lb, pb)] :
        t \in Texts, w \in 0..MaxWidth, rows \in 1..2, fp \in FontPairs,
        lb \in LineBreakings, pb \in PageBreakings}

\* Streams of several Ops, in the defaults of TextLayout::new.
StreamOps ==
    {OpFont(FONT_BOLD), OpColor("RED"), OpText(<<97>>), OpText(<<97, ASCII_LF>>),
     OpText(<<ASCII_SPACE, 97>>)}

StreamInputs ==
    {[ops |-> s, layout |-> LayoutOf(w, rows, FONT_NORMAL, FONT_BOLD, "BreakAtWhitespace", pb)] :
        s \in SeqsUpTo(StreamOps, MaxOps), w \in 0..MaxWidth, rows \in 1..2,
        pb \in PageBreakings}

\* A run of ten glyphs of 10 pixels each in an area 35 pixels wide with room
\* for four or five lines, the hyphen 0 to 5 pixels wide.
TenGlyphs == <<97, 97, 97, 97, 97, 97, 97, 97, 97, 97>>

HyphenationInputs ==
    {[ops |-> <<OpText(TenGlyphs)>>,
      layout |-> LayoutOf(35, rows, Font("normal", 10, 4, 4, lh), Font("bold", 10, 4, hw, lh),
                          "BreakWordsAndInsertHyphen", pb)] :
        rows \in 4..5, hw \in 0..5, lh \in {1, 12}, pb \in PageBreakings}

\* A run of four glyphs of 1 pixel, and a word after a space, in an area with
\* room for two or three glyphs and three or four lines, the hyphen 1 or 2
\* pixels wide.
FourGlyphs == <<97, 97, 97, 97>>

RescanInputs ==
    {[ops |-> <<OpText(t)>>,
      layout |-> LayoutOf(w, rows, FONT_NORMAL, hf, lb, "CutAndInsertEllipsis")] :
        t \in {FourGlyphs, <<ASCII_SPACE, 97, 97, 97>>}, w \in 2..3, rows \in 3..4,
        hf \in {FONT_NORMAL, FONT_BOLD}, lb \in LineBreakings}

LayoutInputs == SingleTextInputs \cup StreamInputs \cup HyphenationInputs \cup RescanInputs

EmptyMap == [k \in {} |-> <<>>]

InitOther ==
    /\ format = <<>>
    /\ args = EmptyMap
    /\ stored = None
    /\ last_insert = "none"
    /\ tok = None
    /\ tokens = <<>>
    /\ skip_st = None
    /\ caller = None
    /\ span_st = None

InitLayout ==
    /\ \E in \in LayoutInputs :
        /\ layout = in.layout
        /\ ops = [kind |-> "seq", rest |-> in.ops]
        /\ cursor = initial_cursor(in.layout)
    /\ pc = "stream"
    /\ sink = <<>>
    /\ consumed = <<>>
    /\ total_processed_chars = 0
    /\ text = <<>>
    /\ remaining_text = <<>>
    /\ text_mark = 0
    /\ text_fit = None
    /\ last_span = None
    /\ scan = None
    /\ fit = None
    /\ InitOther

SpecLayout == InitLayout /\ [][LayoutNext]_vars

(***************************************************************************)
(* Properties of layout_text and layout_op_stream.                         *)
(***************************************************************************)
\* The events of the running (or last finished) layout_text call.
CallEvents == SubSeq(sink, text_mark + 1, Len(sink))

CountEv(evs, kind) == Cardinality({i \in 1..Len(evs) : evs[i].ev = kind})

EndsInNewline(t) == t # <<>> /\ t[Len(t)] \in {ASCII_LF, ASCII_CR}

\* C1 as stated: a layout_text call that returns OutOfBounds reports
\* processed_chars < text.len() and has emitted out_of_bounds exactly once; a
\* call that returns Fitting has emitted it zero times.
C1_ProcessedBelowLen ==
    /\ text_fit.kind = "OutOfBounds" =>
          /\ text_fit.processed_chars < Len(text)
          /\ CountEv(CallEvents, "out_of_bounds") = 1
    /\ text_fit.kind = "Fitting" => CountEv(CallEvents, "out_of_bounds") = 0

\* C1, amended: a layout_text call that returns OutOfBounds reports
\* processed_chars <= text.len(), with equality only for a text that ends in
\* LF or CR, and has emitted out_of_bounds exactly once; a call that returns
\* Fitting has emitted it zero times.
C1_ProcessedAtMostLen ==
    /\ text_fit.kind = "OutOfBounds" =>
          /\ text_fit.processed_chars <= Len(text)
          /\ text_fit.processed_chars = Len(text) => EndsInNewline(text)
          /\ CountEv(CallEvents, "out_of_bounds") = 1
    /\ text_fit.kind = "Fitting" => CountEv(CallEvents, "out_of_bounds") = 0

\* C1's case: the overflow happens on the line break of a final LF or CR, so
\* that the whole text has been consumed.
C1_Witness ==
    /\ text_fit.kind = "OutOfBounds"
    /\ text_fit.processed_chars = Len(text)
    /\ EndsInNewline(text)

\* C3: layout_op_stream stops at the first Text op whose layout_text returns
\* OutOfBounds: out_of_bounds is the last sink event, the stream has returned
\* OutOfBounds and the overflowing Text op is the last op pulled from the
\* iterator; if no Text op overflows, the iterator is exhausted and the
\* result is Fitting.
C3_StopsAtFirstOutOfBounds ==
    LET n == CountEv(sink, "out_of_bounds")
    IN  /\ n <= 1
        /\ n = 1 =>
              /\ pc = "done"
              /\ fit.kind = "OutOfBounds"
              /\ text_fit.kind = "OutOfBounds"
              /\ sink[Len(sink)].ev = "out_of_bounds"
              /\ consumed[Len(consumed)] = OpText(text)
        /\ (pc = "done" /\ n = 0) =>
              /\ fit.kind = "Fitting"
              /\ OpsNext(ops, args).item = None
        /\ pc # "done" => fit = None

\* C3's case: the stream has returned OutOfBounds on a Text op that is
\* neither the first nor the last op of the stream.
C3_Witness ==
    /\ pc = "done"
    /\ fit.kind = "OutOfBounds"
    /\ Len(consumed) >= 2
    /\ OpsNext(ops, args).item # None

\* C4: in a layout_text call that reaches vertical overflow the ellipsis
\* event is emitted, once and immediately before out_of_bounds, if and only if
\* page_breaking is CutAndInsertEllipsis and the span that broke the line did
\* not insert a hyphen and bytes of the text remain; a call that does not
\* overflow emits no ellipsis.
C4_EllipsisIff ==
    LET evs == CallEvents
        ne == CountEv(evs, "ellipsis")
        no == CountEv(evs, "out_of_bounds")
    IN  /\ ne <= 1
        /\ no = 0 => ne = 0
        /\ no > 0 =>
              (ne = 1 <=> /\ layout.page_breaking = "CutAndInsertEllipsis"
                          /\ ~last_span.insert_hyphen_before_line_break
                          /\ remaining_text # <<>>)
        /\ ne = 1 =>
              /\ Len(evs) >= 2
              /\ evs[Len(evs) - 1].ev = "ellipsis"
              /\ evs[Len(evs)].ev = "out_of_bounds"

\* C4's case: an overflow with the ellipsis appended.
C4_Witness ==
    /\ text_fit.kind = "OutOfBounds"
    /\ CountEv(CallEvents, "ellipsis") = 1
    /\ layout.page_breaking = "CutAndInsertEllipsis"

\* The rank of a position of the pass: a call of layout_text is entered from
\* the stream loop and returns to it, or ends the pass.
PcRank == CASE pc = "text" -> 2 [] pc = "stream" -> 1 [] OTHER -> 0

\* What is left of the pass, in lexicographic order: the ops not yet pulled,
\* the position, the bytes of the running text not yet consumed, and the
\* vertical room under the cursor.
Measure == <<Len(ops.rest), PcRank, Len(remaining_text), layout.bounds.y1 - cursor.y>>

RECURSIVE LexLess(_, _)
LexLess(a, b) ==
    /\ a # <<>>
    /\ \/ Head(a) < Head(b)
       \/ Head(a) = Head(b) /\ LexLess(Tail(a), Tail(b))

\* An iteration of layout_text's loop slices the remaining text within its
\* length and consumes at least one byte, or raises cursor.y within the
\* bounds, or returns.
LoopProgress ==
    (pc = "text" /\ remaining_text # <<>>) =>
        /\ last_span'.length + last_span'.skip_next_chars <= Len(remaining_text)
        /\ \/ Len(remaining_text') < Len(remaining_text)
           \/ /\ remaining_text' = remaining_text
              /\ cursor'.y > cursor.y
              /\ cursor'.y <= layout.bounds.y1
           \/ pc' = "done"

\* C5: every layout_text call, and layout_op_stream over a finite op stream,
\* terminates, also when the horizontal budget is smaller than every glyph:
\* each loop iteration consumes at least one byte of the remaining text or
\* strictly raises cursor.y towards bounds.y1 (or returns), so that every step
\* of the pass lowers a measure that is bounded from below.
C5_Terminates ==
    /\ [][LoopProgress /\ LexLess(Measure', Measure)]_vars
    /\ [](layout.bounds.y1 - cursor.y >= 0)

\* C5's case: the stream has returned after iterations that consumed nothing
\* (two empty text events in a row, the budget smaller than the next glyph).
C5_Witness ==
    /\ pc = "done"
    /\ \E i \in 1..Len(sink) :
          /\ sink[i].ev = "text" /\ sink[i].text = <<>>
          /\ i + 2 <= Len(sink)
          /\ sink[i + 2].ev = "text" /\ sink[i + 2].text = <<>>

\* The events of the sink, each reduced to its kind and the number of bytes
\* it carries.
Shape(evs) ==
    [i \in 1..Len(evs) |->
        IF evs[i].ev = "text" THEN <<"text", Len(evs[i].text)>> ELSE <<evs[i].ev>>]

\* The layout of C8: ten glyphs of 10 pixels, an area 35 pixels wide with room
\* for four lines, BreakWordsAndInsertHyphen, a hyphen of at most 5 pixels.
HyphenationCase ==
    /\ consumed = <<OpText(TenGlyphs)>>
    /\ TextWidth(layout.text_font, 97) = 10
    /\ layout.bounds.x1 - layout.bounds.x0 = 35
    /\ layout.bounds.y1 - layout.bounds.y0 >= 4 * LineHeight(layout.text_font)
    /\ layout.line_breaking = "BreakWordsAndInsertHyphen"
    /\ TextWidth(layout.hyphen_font, ASCII_HYPHEN) <= 5

\* C8: ten glyphs of 10 pixels in a 35 pixel area under
\* BreakWordsAndInsertHyphen break after every third glyph: text events of 3,
\* 3, 3 and 1 glyphs, a hyphen after each of the first three, three
\* line_break events, and the result is Fitting.
C8_HyphenatesEveryThird ==
    (HyphenationCase /\ pc = "done") =>
        /\ Shape(sink) = << <<"text", 3>>, <<"hyphen">>, <<"line_break">>,
                            <<"text", 3>>, <<"hyphen">>, <<"line_break">>,
                            <<"text", 3>>, <<"hyphen">>, <<"line_break">>,
                            <<"text", 1>> >>
        /\ fit = Fitting(10)

\* C8's case: the pass over the ten glyphs has returned, the hyphen being
\* exactly 5 pixels wide.
C8_Witness ==
    /\ HyphenationCase
    /\ pc = "done"
    /\ TextWidth(layout.hyphen_font, ASCII_HYPHEN) = 5

\* The events the step hands to the sink.
NewEvents == SubSeq(sink', Len(sink) + 1, Len(sink'))

\* The summed length of the Text ops of an op sequence.
RECURSIVE SumTextLen(_)
SumTextLen(s) ==
    IF s = <<>> THEN 0
    ELSE (IF Head(s).op = "Text" THEN Len(Head(s).text) ELSE 0) + SumTextLen(Tail(s))

\* C12: during layout_op_stream the cumulative processed-character count
\* never decreases and never exceeds the summed length of the Text ops pulled
\* so far; a Fitting result reports the summed length of all Text ops of the
\* stream; an OutOfBounds result reports the summed length of the Text ops
\* laid out in full plus the bytes consumed from the overflowing one.
C12_ProcessedCount ==
    /\ [][total_processed_chars' >= total_processed_chars]_vars
    /\ [](total_processed_chars <= SumTextLen(consumed))
    /\ []((pc = "done" /\ fit.kind = "Fitting") =>
              /\ ops.rest = <<>>
              /\ fit.processed_chars = SumTextLen(consumed))
    /\ []((pc = "done" /\ fit.kind = "OutOfBounds") =>
              /\ consumed[Len(consumed)] = OpText(text)
              /\ fit.processed_chars =
                    SumTextLen(SubSeq(consumed, 1, Len(consumed) - 1))
                        + (Len(text) - Len(remaining_text)))

\* C12's case: the stream has returned OutOfBounds in its third Text op, after
\* consuming a part of it.
C12_Witness ==
    /\ pc = "done"
    /\ fit.kind = "OutOfBounds"
    /\ Len(consumed) = 3
    /\ \A i \in 1..3 : consumed[i].op = "Text"
    /\ Len(remaining_text) > 0
    /\ Len(remaining_text) < Len(text)
    /\ fit.processed_chars > Len(text) - Len(remaining_text)

\* Text bytes of the op stream are still unprocessed: in the overflowing Text
\* op or in a Text op not yet pulled.
MoreContent ==
    \/ remaining_text # <<>>
    \/ \E k \in 1..Len(ops.rest) : ops.rest[k].op = "Text" /\ ops.rest[k].text # <<>>

\* C15: under CutAndInsertEllipsis, whenever layout_op_stream ends with
\* OutOfBounds while text bytes of the op stream are still unprocessed (in the
\* overflowing Text op or in a later one) and the last span did not insert a
\* hyphen, an ellipsis event is emitted before the out_of_bounds event.
C15_EllipsisWhenMoreContent ==
    (/\ pc = "done"
     /\ fit.kind = "OutOfBounds"
     /\ layout.page_breaking = "CutAndInsertEllipsis"
     /\ ~last_span.insert_hyphen_before_line_break
     /\ MoreContent) =>
        /\ Len(sink) >= 2
        /\ sink[Len(sink) - 1].ev = "ellipsis"
        /\ sink[Len(sink)].ev = "out_of_bounds"

\* The text of the running layout_text call has no whitespace, and each of
\* its glyphs is wider than the bounds.
GlyphsWiderThanBounds ==
    /\ text # <<>>
    /\ \A k \in 1..Len(text) :
          /\ ~is_whitespace(text[k])
          /\ TextWidth(layout.text_font, text[k]) > layout.bounds.x1 - layout.bounds.x0

\* The horizontal budget of the next iteration is smaller than the first
\* glyph of the remaining text, which is no whitespace.
BudgetBelowFirstGlyph ==
    /\ pc = "text"
    /\ remaining_text # <<>>
    /\ ~is_whitespace(remaining_text[1])
    /\ layout.bounds.x1 - cursor.x < TextWidth(layout.text_font, remaining_text[1])

\* C16: when the horizontal budget is smaller than the first glyph of a text
\* that starts with a non-whitespace byte, fit_horizontally returns the
\* zero-progress forced break (length 0, skip_next_chars 0, advance (0, line
\* height), no hyphen); and in a layout_text call on a whitespace-free text
\* whose every glyph is wider than the bounds, no iteration consumes a byte:
\* every text event of the call is empty, the remaining text stays the whole
\* text, and the call does not return Fitting.
C16_ZeroProgress ==
    /\ [][BudgetBelowFirstGlyph =>
              last_span' = Span(0, 0, 0, LineHeight(layout.text_font), FALSE)]_vars
    /\ []((pc = "text" /\ GlyphsWiderThanBounds) =>
              /\ remaining_text = text
              /\ \A k \in 1..Len(CallEvents) :
                    CallEvents[k].ev = "text" => CallEvents[k].text = <<>>)
    /\ [][(pc = "text" /\ GlyphsWiderThanBounds) =>
              /\ remaining_text' = text
              /\ pc' # "stream"
              /\ text_fit' = None \/ text_fit'.kind = "OutOfBounds"]_vars

\* C16's case: a call on two glyphs, each wider than the bounds, has returned
\* OutOfBounds after two iterations that consumed nothing.
C16_Witness ==
    /\ pc = "done"
    /\ GlyphsWiderThanBounds
    /\ Len(text) = 2
    /\ remaining_text = text
    /\ text_fit.kind = "OutOfBounds"
    /\ text_fit.processed_chars = 0
    /\ CountEv(CallEvents, "text") = 2

\* The width of the hyphen glyph in the layout's hyphen font.
HyphenWidth == TextWidth(layout.hyphen_font, ASCII_HYPHEN)

\* C20: whenever fit_horizontally returns a Span with
\* insert_hyphen_before_line_break, its advance.x plus the width of the
\* hyphen glyph is at most max_width, its length is at least 1 and its
\* vertical advance is positive; the hyphen that layout_text then reports
\* lies at the advanced cursor and ends at or before bounds.x1.
C20_HyphenFits ==
    [][(/\ pc = "text"
        /\ last_span' # None
        /\ last_span'.insert_hyphen_before_line_break) =>
            /\ last_span'.advance.x + HyphenWidth <= layout.bounds.x1 - cursor.x
            /\ last_span'.length >= 1
            /\ last_span'.advance.y > 0
            /\ Len(NewEvents) >= 2
            /\ NewEvents[2].ev = "hyphen"
            /\ NewEvents[2].cursor = Point(cursor.x + last_span'.advance.x, cursor.y)
            /\ NewEvents[2].cursor.x + HyphenWidth <= layout.bounds.x1]_vars

\* C20's case: a hyphen has been reported that ends exactly at bounds.x1, in
\* a line that starts at the left bound of an area wider than the run.
C20_Witness ==
    /\ pc = "done"
    /\ \E k \in 1..Len(sink) :
          /\ sink[k].ev = "hyphen"
          /\ sink[k].cursor.x > layout.bounds.x0
          /\ sink[k].cursor.x + HyphenWidth = layout.bounds.x1
          /\ HyphenWidth > 0

\* The running (or last) layout_text call has consumed at least one byte in
\* each of its iterations.
ConsumesInEveryIteration == scan # None /\ ~scan.stalled

\* The bytes of the text the call has consumed.
ConsumedBytes == Len(text) - Len(remaining_text)

\* C22 as stated: across the fit_horizontally calls of one layout_text call
\* that consumes bytes in every iteration, each byte of the text is measured
\* at most twice, whatever the widths of the glyphs and of the hyphen.
C22_MeasuredAtMostTwice ==
    ConsumesInEveryIteration => \A k \in 1..Len(text) : scan.counts[k] <= 2

\* C22, amended: in such a call each fit_horizontally call measures a byte at
\* most once, measures no byte that has been consumed, and measures at least
\* one byte; so the byte at offset p is measured at most p + 1 times, and at
\* most as often as the call has iterated.
C22_MeasuredOncePerCall ==
    /\ [][(pc = "text" /\ remaining_text # <<>> /\ ConsumesInEveryIteration) =>
              /\ \A k \in 1..Len(text) :
                    /\ scan'.counts[k] \in {scan.counts[k], scan.counts[k] + 1}
                    /\ k <= ConsumedBytes => scan'.counts[k] = scan.counts[k]
              /\ scan'.counts[ConsumedBytes + 1] = scan.counts[ConsumedBytes + 1] + 1]_vars
    /\ [](ConsumesInEveryIteration =>
              \A k \in 1..Len(text) :
                  /\ scan.counts[k] <= k
                  /\ scan.counts[k] <= scan.iterations)

\* C22's case: a call that consumed bytes in each of its iterations has
\* returned Fitting after measuring its third byte three times.
C22_Witness ==
    /\ ConsumesInEveryIteration
    /\ text_fit # None
    /\ text_fit.kind = "Fitting"
    /\ Len(text) = 4
    /\ scan.counts[3] = 3

\* The byte runs handed to sink.text by the current layout_text call, in call
\* order.
HandedRuns ==
    LET ts == SelectSeq(CallEvents, LAMBDA e : e.ev = "text")
    IN  [k \in 1..Len(ts) |-> ts[k].text]

\* The runs with the skipped bytes of each iteration put back after its run.
RECURSIVE Rejoin(_, _)
Rejoin(runs, skips) ==
    IF runs = <<>> \/ skips = <<>> THEN <<>>
    ELSE Head(runs) \o Head(skips) \o Rejoin(Tail(runs), Tail(skips))

\* C23: in every layout_text call no byte is lost or reported twice: every
\* iteration hands one byte run to sink.text, the runs in call order with the
\* skipped bytes put back between them are the bytes of the text consumed so
\* far, at the return these are the first processed_chars bytes of the text,
\* and every skipped byte is a space, LF or CR.
C23_NoByteLostOrRepeated ==
    scan # None =>
        /\ Len(HandedRuns) = scan.iterations
        /\ Len(scan.skipped) = scan.iterations
        /\ Rejoin(HandedRuns, scan.skipped) = Slice(text, 0, ConsumedBytes)
        /\ text_fit # None =>
              Rejoin(HandedRuns, scan.skipped) = Slice(text, 0, text_fit.processed_chars)
        /\ \A k \in 1..Len(scan.skipped) : \A j \in 1..Len(scan.skipped[k]) :
              scan.skipped[k][j] \in {ASCII_SPACE, ASCII_LF, ASCII_CR}

\* C23's case: a layout_text call has returned after handing over two
\* non-empty runs with a skipped byte between them.
C23_Witness ==
    /\ scan # None
    /\ text_fit # None
    /\ Len(HandedRuns) >= 2
    /\ HandedRuns[1] # <<>>
    /\ HandedRuns[2] # <<>>
    /\ scan.skipped[1] # <<>>

(***************************************************************************)
(* SpecRepaint: the owner of a TextLayout lays the same op stream out      *)
(* twice.  layout_op_stream takes `mut self`, a copy of the owner's        *)
(* TextLayout (which is Copy; Text::layout_content passes                  *)
(* self.layout.clone()), and layout_formatted starts every pass at         *)
(* initial_cursor.  `stored` is the owner's layout, `caller` holds the ops *)
(* of each pass and the sink events of the first one.                      *)
(***************************************************************************)
InitRepaint ==
    /\ \E in \in StreamInputs :
        /\ stored = in.layout
        /\ layout = in.layout
        /\ caller = [ops |-> in.ops, passes |-> 1, first |-> <<>>]
        /\ ops = [kind |-> "seq", rest |-> in.ops]
        /\ cursor = initial_cursor(in.layout)
    /\ pc = "stream"
    /\ sink = <<>>
    /\ consumed = <<>>
    /\ total_processed_chars = 0
    /\ text = <<>>
    /\ remaining_text = <<>>
    /\ text_mark = 0
    /\ text_fit = None
    /\ last_span = None
    /\ scan = None
    /\ fit = None
    /\ format = <<>>
    /\ args = EmptyMap
    /\ last_insert = "none"
    /\ tok = None
    /\ tokens = <<>>
    /\ skip_st = None
    /\ span_st = None

\* The first pass has returned; the owner starts the second one on a fresh
\* copy of its layout, with a fresh sink.
Repaint ==
    /\ pc = "done"
    /\ caller.passes = 1
    /\ caller' = [caller EXCEPT !.passes = 2, !.first = sink]
    /\ layout' = stored
    /\ cursor' = initial_cursor(stored)
    /\ ops' = [kind |-> "seq", rest |-> caller.ops]
    /\ sink' = <<>>
    /\ consumed' = <<>>
    /\ total_processed_chars' = 0
    /\ text' = <<>>
    /\ remaining_text' = <<>>
    /\ text_mark' = 0
    /\ text_fit' = None
    /\ last_span' = None
    /\ scan' = None
    /\ fit' = None
    /\ pc' = "stream"
    /\ UNCHANGED <<format, args, stored, last_insert, tok, tokens, skip_st, span_st>>

RepaintNext == LayoutNext \/ Repaint

SpecRepaint == InitRepaint /\ [][RepaintNext]_vars

\* The working style after the ops pulled so far: the font of the last Font
\* op and the color of the last Color op, or else those of the owner's layout.
RECURSIVE StyleAfter(_, _)
StyleAfter(pulled, style) ==
    IF pulled = <<>> THEN style
    ELSE StyleAfter(Tail(pulled),
                    CASE Head(pulled).op = "Font" -> [style EXCEPT !.font = Head(pulled).font]
                      [] Head(pulled).op = "Color" -> [style EXCEPT !.color = Head(pulled).color]
                      [] OTHER -> style)

OwnerStyle == [font |-> stored.text_font, color |-> stored.text_color]

\* The step pulls a Font or Color op from the stream.
PullsStyleOp ==
    /\ Len(consumed') = Len(consumed) + 1
    /\ consumed'[Len(consumed')].op \in {"Font", "Color"}

\* C11: a Font or Color op changes only the working style of the running
\* pass: the step that pulls it emits no sink event, leaves the cursor where
\* it is and changes nothing of the working layout but text_font or
\* text_color; every text event emitted later in the pass is handed the style
\* of the last Font and Color ops pulled before it; no step changes the
\* owner's stored layout, and the second pass over the same ops ends with the
\* same sink event sequence as the first.
C11_StyleOpsAreLocal ==
    /\ [][PullsStyleOp =>
              /\ sink' = sink
              /\ cursor' = cursor
              /\ [layout' EXCEPT !.text_font = layout.text_font,
                                  !.text_color = layout.text_color] = layout]_vars
    /\ [][(pc = "text" /\ Len(sink') > Len(sink)) =>
              \A i \in 1..Len(NewEvents) :
                  NewEvents[i].ev = "text" =>
                      /\ NewEvents[i].font = StyleAfter(consumed, OwnerStyle).font
                      /\ NewEvents[i].color = StyleAfter(consumed, OwnerStyle).color]_vars
    /\ [][stored' = stored]_vars
    /\ []((pc = "done" /\ caller.passes = 2) => sink = caller.first)

\* C11's case: the second pass has returned after pulling a Color op and a
\* Font op that differ from the owner's style, and a text event after them
\* carries both.
C11_Witness ==
    /\ pc = "done"
    /\ caller.passes = 2
    /\ \E i \in 1..Len(consumed) : consumed[i] = OpFont(FONT_BOLD)
    /\ \E i \in 1..Len(consumed) : consumed[i] = OpColor("RED")
    /\ stored.text_font = FONT_NORMAL
    /\ stored.text_color = "FG"
    /\ \E i \in 1..Len(sink) :
          sink[i].ev = "text" /\ sink[i].font = FONT_BOLD /\ sink[i].color = "RED"

(***************************************************************************)
(* SpecTokenizer: a Tokenizer drained by repeated calls of next.           *)
(***************************************************************************)
InitNoPass ==
    /\ layout = None
    /\ ops = None
    /\ cursor = None
    /\ sink = <<>>
    /\ consumed = <<>>
    /\ total_processed_chars = 0
    /\ text = <<>>
    /\ remaining_text = <<>>
    /\ text_mark = 0
    /\ text_fit = None
    /\ last_span = None
    /\ scan = None
    /\ fit = None
    /\ caller = None

\* The format strings of tests::tokenizer_yields_expected_tokens with the
\* tokens the test expects (x = 120, y = 121, z = 122, NUL = 0).
TokenizerFixtures ==
    << << <<>>, <<>> >>,
       << <<120>>, <<Literal(<<120>>)>> >>,
       << <<120, 0, 121>>, <<Literal(<<120, 0, 121>>)>> >>,
       << <<123>>, <<>> >>,
       << <<120, 123>>, <<Literal(<<120>>)>> >>,
       << <<120, 123, 121>>, <<Literal(<<120>>)>> >>,
       << <<123, 125>>, <<Argument(<<>>)>> >>,
       << <<120, 123, 125, 121, 123>>,
          <<Literal(<<120>>), Argument(<<>>), Literal(<<121>>)>> >>,
       << <<123, 0, 125>>, <<Argument(<<0>>)>> >>,
       << <<123, 123, 121, 125>>, <<Argument(<<123, 121>>)>> >>,
       << <<123, 123, 123, 123, 120, 121, 122>>, <<>> >>,
       << <<120, 123, 125, 123, 123, 125, 125, 125, 125>>,
          <<Literal(<<120>>), Argument(<<>>), Argument(<<123>>),
            Literal(<<125, 125, 125>>)>> >> >>

FormatInputs ==
    SeqsUpTo({120, ASCII_OPEN_BRACE, ASCII_CLOSED_BRACE}, MaxFmtLen)
        \cup {TokenizerFixtures[i][1] : i \in 1..Len(TokenizerFixtures)}

InitTokenizer ==
    /\ pc = "tokenizing"
    /\ \E input \in FormatInputs : tok = TokenizerNew(input)
    /\ tokens = <<>>
    /\ format = <<>>
    /\ args = EmptyMap
    /\ stored = None
    /\ last_insert = "none"
    /\ skip_st = None
    /\ span_st = None
    /\ InitNoPass

\* next() returns Some(token)
TokenizerYield ==
    /\ pc = "tokenizing"
    /\ LET n == TokenizerNext(tok)
       IN  /\ n.token # None
           /\ tokens' = Append(tokens, n.token)
           /\ tok' = [tok EXCEPT !.pos = n.pos]
    /\ UNCHANGED <<pc, skip_st>>
    /\ UNCHANGED textVars
    /\ UNCHANGED auxVars
    /\ UNCHANGED layoutVars

\* next() returns None: the sequence has ended
TokenizerEnd ==
    /\ pc = "tokenizing"
    /\ LET n == TokenizerNext(tok)
       IN  /\ n.token = None
           /\ tok' = [tok EXCEPT !.pos = n.pos]
    /\ pc' = "tokens_done"
    /\ UNCHANGED <<tokens, skip_st>>
    /\ UNCHANGED textVars
    /\ UNCHANGED auxVars
    /\ UNCHANGED layoutVars

TokenizerStep == TokenizerYield \/ TokenizerEnd

SpecTokenizer == InitTokenizer /\ [][TokenizerStep]_vars

\* The index (1-based) of the first byte b of s, or 0.
IndexOf(s, b) ==
    IF \E i \in 1..Len(s) : s[i] = b
    THEN CHOOSE i \in 1..Len(s) : s[i] = b /\ \A j \in 1..(i - 1) : s[j] # b
    ELSE 0

\* The reference lexer of C6.
RECURSIVE RefLex(_)
RefLex(s) ==
    IF s = <<>> THEN <<>>
    ELSE IF s[1] = ASCII_OPEN_BRACE
    THEN LET close == IndexOf(s, ASCII_CLOSED_BRACE)
         IN  IF close = 0
             THEN <<>>
             ELSE <<Argument(SubSeq(s, 2, close - 1))>> \o RefLex(SubSeq(s, close + 1, Len(s)))
    ELSE LET open == IndexOf(s, ASCII_OPEN_BRACE)
         IN  IF open = 0
             THEN <<Literal(s)>>
             ELSE <<Literal(SubSeq(s, 1, open - 1))>> \o RefLex(SubSeq(s, open, Len(s)))

IsPrefix(a, b) == Len(a) <= Len(b) /\ SubSeq(b, 1, Len(a)) = a

\* C6: the Tokenizer yields exactly the token sequence of the reference lexer
\* (a `{` opens an argument named by every byte up to the next `}`; any other
\* byte starts a literal running to the next `{` or the end; an unterminated
\* argument yields no token and ends the sequence), and in particular the
\* token sequences of the fixtures.
C6_TokenizerIsReferenceLexer ==
    /\ IsPrefix(tokens, RefLex(tok.input))
    /\ pc = "tokens_done" =>
          /\ tokens = RefLex(tok.input)
          /\ \A i \in 1..Len(TokenizerFixtures) :
                tok.input = TokenizerFixtures[i][1] => tokens = TokenizerFixtures[i][2]

\* C6's case: "x{}{{}}}}" has been tokenized to its four tokens.
C6_Witness ==
    /\ pc = "tokens_done"
    /\ tok.input = <<120, 123, 125, 123, 123, 125, 125, 125, 125>>
    /\ Len(tokens) = 4

(***************************************************************************)
(* SpecSkip: Op::skip_n_text_bytes, one op of the input at a time.         *)
(***************************************************************************)
\* The closure of filter_map: the op passed on (or None) and `skipped`
\* afterwards.
skip_closure(op, skipped, skip_bytes) ==
    IF op.op = "Text" /\ skipped < skip_bytes
    THEN LET skipped2 == skipped + Len(op.text)
         IN  IF skipped2 > skip_bytes
             THEN LET leave_bytes == skipped2 - skip_bytes
                  IN  [item |-> OpText(Slice(op.text, 0, Len(op.text) - leave_bytes)),
                       skipped |-> skipped2]
             ELSE [item |-> None, skipped |-> skipped2]
    ELSE [item |-> op, skipped |-> skipped]

SkipOps ==
    {OpText(<<97, 98>>), OpText(<<99>>), OpText(<<>>), OpText(<<100, 101, 102>>),
     OpFont(FONT_BOLD)}

InitSkip ==
    /\ pc = "skipping"
    /\ \E s \in SeqsUpTo(SkipOps, MaxOps), n \in 0..MaxSkip :
          skip_st = [input |-> s, rest |-> s, skip_bytes |-> n, skipped |-> 0, out |-> <<>>]
    /\ format = <<>>
    /\ args = EmptyMap
    /\ stored = None
    /\ last_insert = "none"
    /\ tok = None
    /\ tokens = <<>>
    /\ span_st = None
    /\ InitNoPass

\* The adapter pulls one op of the input through the closure.
SkipPull ==
    /\ pc = "skipping"
    /\ skip_st.rest # <<>>
    /\ LET r == skip_closure(Head(skip_st.rest), skip_st.skipped, skip_st.skip_bytes)
       IN  skip_st' = [skip_st EXCEPT
                          !.rest = Tail(skip_st.rest),
                          !.skipped = r.skipped,
                          !.out = IF r.item = None THEN @ ELSE Append(@, r.item)]
    /\ UNCHANGED <<pc, tok, tokens>>
    /\ UNCHANGED textVars
    /\ UNCHANGED auxVars
    /\ UNCHANGED layoutVars

\* The input is exhausted.
SkipEnd ==
    /\ pc = "skipping"
    /\ skip_st.rest = <<>>
    /\ pc' = "skip_done"
    /\ UNCHANGED <<tok, tokens, skip_st>>
    /\ UNCHANGED textVars
    /\ UNCHANGED auxVars
    /\ UNCHANGED layoutVars

SkipStep == SkipPull \/ SkipEnd

SpecSkip == InitSkip /\ [][SkipStep]_vars

\* The concatenation of the Text payloads of an op sequence.
RECURSIVE TextPayload(_)
TextPayload(s) ==
    IF s = <<>> THEN <<>>
    ELSE (IF Head(s).op = "Text" THEN Head(s).text ELSE <<>>) \o TextPayload(Tail(s))

\* C2: skip_n_text_bytes(ops, N) drops exactly the first N bytes of the
\* cumulative Text content: the Text payload of the output is the Text
\* payload of the input without its first min(N, total) bytes.
C2_SkipDropsPrefix ==
    pc = "skip_done" =>
        LET all == TextPayload(skip_st.input)
        IN  TextPayload(skip_st.out) =
                SubSeq(all, Min(skip_st.skip_bytes, Len(all)) + 1, Len(all))

(***************************************************************************)
(* SpecText: a Text built by Text::new(area), format and with calls, and   *)
(* painted.  pc = "idle": between calls; a paint runs layout_content, the  *)
(* pass of layout_formatted over the stored layout's copy.                 *)
(***************************************************************************)
\* "{bold}Pay {amount} BTC?"
PayFormat ==
    <<123, 98, 111, 108, 100, 125, 80, 97, 121, 32,
      123, 97, 109, 111, 117, 110, 116, 125, 32, 66, 84, 67, 63>>
PayLiteral == <<80, 97, 121, 32>>           \* "Pay "
BtcLiteral == <<32, 66, 84, 67, 63>>        \* " BTC?"
AmountValue == <<48, 46, 48, 48, 49>>       \* "0.001"
OtherValue == <<97, 97>>                    \* "aa"

\* "k1" .. "k5"
OtherKeys == {<<107, 49>>, <<107, 50>>, <<107, 51>>, <<107, 52>>, <<107, 53>>}

\* "{k1}x{k2}{mono}y{"
MixedFormat ==
    <<123, 107, 49, 125, 120, 123, 107, 50, 125, 123, 109, 111, 110, 111, 125, 121, 123>>

\* "{bold}{k3} x"
ShortFormat == <<123, 98, 111, 108, 100, 125, 123, 107, 51, 125, 32, 120>>

Formats == {PayFormat, MixedFormat, ShortFormat}

\* The calls of Text::with: <<key, value>>
WithCalls ==
    {<<KeyAmount, AmountValue>>, <<KeyAmount, OtherValue>>,
     <<KeyBold, AmountValue>>, <<KeyBold, OtherValue>>}
        \cup {<<k, OtherValue>> : k \in OtherKeys}

\* The width of a byte run in a font.
RECURSIVE RunWidth(_, _)
RunWidth(font, bytes) ==
    IF bytes = <<>> THEN 0
    ELSE TextWidth(font, Head(bytes)) + RunWidth(font, Tail(bytes))

\* Areas: one line of "Pay 0.001 BTC?" in bold exactly, a wider and higher
\* one, and a narrow one.
PayLineWidth == RunWidth(FONT_BOLD, PayLiteral \o AmountValue \o BtcLiteral)

Areas ==
    {Rect(0, 0, PayLineWidth, 2), Rect(0, 0, PayLineWidth + 3, 6), Rect(0, 0, 3, 4)}

\* Text::new(area)
InitText ==
    /\ pc = "idle"
    /\ \E area \in Areas : stored = TextLayoutNew(area)
    /\ format = <<>>
    /\ args = EmptyMap
    /\ last_insert = "none"
    /\ tok = None
    /\ tokens = <<>>
    /\ skip_st = None
    /\ span_st = None
    /\ InitNoPass

\* Text::format
TextFormat ==
    /\ pc = "idle"
    /\ \E f \in Formats : format' = f
    /\ UNCHANGED <<pc, args, stored, last_insert, tok, tokens, skip_st>>
    /\ UNCHANGED auxVars
    /\ UNCHANGED layoutVars

\* Text::with
TextWith ==
    /\ pc = "idle"
    /\ \E c \in WithCalls :
          /\ args' = with(args, c[1], c[2])
          /\ last_insert' = LinearMapInsert(args, c[1], c[2]).res
    /\ UNCHANGED <<pc, format, stored, tok, tokens, skip_st>>
    /\ UNCHANGED auxVars
    /\ UNCHANGED layoutVars

\* Component::paint: layout_content begins the pass of layout_formatted on a
\* clone of the stored layout.
Paint ==
    /\ pc = "idle"
    /\ layout' = stored
    /\ cursor' = initial_cursor(stored)
    /\ ops' = [kind |-> "fmt", tokenizer |-> TokenizerNew(format)]
    /\ sink' = <<>>
    /\ consumed' = <<>>
    /\ total_processed_chars' = 0
    /\ text' = <<>>
    /\ remaining_text' = <<>>
    /\ text_mark' = 0
    /\ text_fit' = None
    /\ last_span' = None
    /\ scan' = None
    /\ fit' = None
    /\ pc' = "stream"
    /\ UNCHANGED otherVars

\* layout_content returns; the LayoutFit and the working copy are dropped.
PaintReturn ==
    /\ pc = "done"
    /\ pc' = "idle"
    /\ layout' = None
    /\ ops' = None
    /\ cursor' = None
    /\ sink' = <<>>
    /\ consumed' = <<>>
    /\ total_processed_chars' = 0
    /\ text' = <<>>
    /\ remaining_text' = <<>>
    /\ text_mark' = 0
    /\ text_fit' = None
    /\ last_span' = None
    /\ scan' = None
    /\ fit' = None
    /\ UNCHANGED otherVars

\* The resolver of layout_content yields no Color op.
TextNext ==
    \/ TextFormat
    \/ TextWith
    \/ Paint
    \/ PaintReturn
    \/ StreamFont
    \/ StreamText
    \/ StreamEnd
    \/ SpanContinue
    \/ SpanLineBreak
    \/ SpanOutOfBounds
    \/ TextFitting

SpecText == InitText /\ [][TextNext]_vars

(***************************************************************************)
(* Properties of the Text facade.                                          *)
(***************************************************************************)
\* The case of C7: the format "{bold}Pay {amount} BTC?", amount = "0.001",
\* an area wide enough for the line in the bold font.
PayCase ==
    /\ format = PayFormat
    /\ KeyAmount \in DOMAIN args
    /\ args[KeyAmount] = AmountValue
    /\ stored.bounds.x1 - stored.bounds.x0 >= PayLineWidth

\* C7: one pass over "{bold}Pay {amount} BTC?" with amount = "0.001" in an
\* area wide enough for one line processes Font(bold), Text("Pay "),
\* Text("0.001"), Text(" BTC?") in this order; the sink receives exactly three
\* text events with these byte runs, each in the bold font, and no other
\* event; the result is Fitting.
C7_PayPass ==
    (pc = "done" /\ PayCase) =>
        /\ consumed = <<OpFont(FONT_BOLD), OpText(PayLiteral), OpText(AmountValue),
                        OpText(BtcLiteral)>>
        /\ Len(sink) = 3
        /\ \A i \in 1..3 : sink[i].ev = "text" /\ sink[i].font = FONT_BOLD
        /\ <<sink[1].text, sink[2].text, sink[3].text>> =
              <<PayLiteral, AmountValue, BtcLiteral>>
        /\ fit = Fitting(Len(PayLiteral) + Len(AmountValue) + Len(BtcLiteral))

\* C7's case: the pass has returned in the area that is exactly as wide as
\* the line.
C7_Witness ==
    /\ pc = "done"
    /\ PayCase
    /\ stored.bounds.x1 - stored.bounds.x0 = PayLineWidth

FontKeywords == {KeyMono, KeyBold, KeyNormal}

SampleTokens ==
    {Literal(PayLiteral), Literal(KeyBold), Argument(<<>>), Argument(KeyAmount)}
        \cup {Argument(k) : k \in FontKeywords \cup OtherKeys}

\* The Op of a token, as C10 states it: <<op>> or <<>>.
ClaimedOps(token, map) ==
    CASE token.kind = "Literal" -> <<OpText(token.bytes)>>
      [] token.kind = "Argument" /\ token.bytes = KeyMono -> <<OpFont(FONT_MONO)>>
      [] token.kind = "Argument" /\ token.bytes = KeyBold -> <<OpFont(FONT_BOLD)>>
      [] token.kind = "Argument" /\ token.bytes = KeyNormal -> <<OpFont(FONT_NORMAL)>>
      [] OTHER -> IF token.bytes \in DOMAIN map THEN <<OpText(map[token.bytes])>> ELSE <<>>

RECURSIVE ClaimedStream(_, _)
ClaimedStream(toks, map) ==
    IF toks = <<>> THEN <<>>
    ELSE ClaimedOps(Head(toks), map) \o ClaimedStream(Tail(toks), map)

\* C10: the resolver maps every token to at most one Op: a Literal to Text of
\* its bytes; an Argument named mono, bold or normal to the theme's Font, also
\* when the table holds that name; any other Argument to Text(value) when the
\* table holds the name and to no Op otherwise, and then the pass continues
\* with the next token and the sink receives nothing for the missing
\* argument: the ops a pass pulls are those of the format's tokens in order,
\* and every sink event belongs to a Text op pulled.
C10_Resolver ==
    /\ \A t \in SampleTokens :
          LET r == resolve(t, args)
          IN  ClaimedOps(t, args) = IF r = None THEN <<>> ELSE <<r>>
    /\ pc \in {"stream", "text", "done"} =>
          /\ IsPrefix(consumed, ClaimedStream(RefLex(format), args))
          /\ sink # <<>> => \E i \in 1..Len(consumed) : consumed[i].op = "Text"
    /\ (pc = "done" /\ fit.kind = "Fitting") =>
          consumed = ClaimedStream(RefLex(format), args)

\* C10's case: a pass over "{bold}{k3} x" has returned Fitting with "bold" a
\* key of the table and k3 missing from it.
C10_Witness ==
    /\ pc = "done"
    /\ fit.kind = "Fitting"
    /\ format = ShortFormat
    /\ KeyBold \in DOMAIN args
    /\ <<107, 51>> \notin DOMAIN args
    /\ consumed = <<OpFont(FONT_BOLD), OpText(<<32, 120>>)>>

(***************************************************************************)
(* SpecFit: one call of Span::fit_horizontally, one loop iteration per     *)
(* step.  span_st holds the arguments, the loop index i, the mutable       *)
(* `line`, span_width and found_any_whitespace, and, once the call has     *)
(* returned, the Span (`result`) and the return statement taken (`how`).   *)
(***************************************************************************)
\* A font whose hyphen has no width.
FONT_THIN_HYPHEN == Font("thin", 1, 1, 0, 2)

FitFontPairs == FontPairs \cup {<<FONT_NORMAL, FONT_THIN_HYPHEN>>}

\* Longer texts: runs of glyphs, spaces inside and at the end.
FitFixtures ==
    {<<97, 97, 97, 97>>, <<ASCII_SPACE, 97, 97, 97>>, <<97, ASCII_SPACE, ASCII_SPACE, 97>>,
     <<97, 97, ASCII_SPACE, 97, 97>>, <<97, 97, 97, ASCII_SPACE, ASCII_SPACE>>,
     <<97, ASCII_SPACE, 97, 97, ASCII_LF, 97>>, <<97, 97, 97, ASCII_CR>>}

FitTexts == Texts \cup FitFixtures

InitFit ==
    /\ pc = "fitting"
    /\ \E t \in FitTexts, w \in -1..MaxWidth, fp \in FitFontPairs, lb \in LineBreakings :
          span_st = [text |-> t, max_width |-> w, text_font |-> fp[1], hyphen_font |-> fp[2],
                     breaking |-> lb,
                     hyphen_width |-> TextWidth(fp[2], ASCII_HYPHEN),
                     i |-> 0,
                     line |-> Span(0, 0, 0, LineHeight(fp[1]), FALSE),
                     span_width |-> 0,
                     found_any_whitespace |-> FALSE,
                     result |-> None,
                     how |-> "running"]
    /\ format = <<>>
    /\ args = EmptyMap
    /\ stored = None
    /\ last_insert = "none"
    /\ tok = None
    /\ tokens = <<>>
    /\ skip_st = None
    /\ InitNoPass

FitFrame ==
    /\ UNCHANGED <<format, args, stored, last_insert, tok, tokens, skip_st, caller>>
    /\ UNCHANGED layoutVars

\* The byte of the running iteration and its width.
FitCh == span_st.text[span_st.i + 1]
FitCharWidth == TextWidth(span_st.text_font, FitCh)

\* A variant in which a space does not replace a recorded hyphen break.
FitSpace_keeps_hyphen_break ==
    /\ pc = "fitting"
    /\ span_st.i < Len(span_st.text)
    /\ is_whitespace(FitCh)
    /\ ~(FitCh = ASCII_LF \/ FitCh = ASCII_CR)
    /\ span_st' = [span_st EXCEPT
                      !.line = IF @.insert_hyphen_before_line_break THEN @
                               ELSE Span(span_st.i, 1, span_st.span_width, @.advance.y, FALSE),
                      !.found_any_whitespace = TRUE,
                      !.span_width = @ + FitCharWidth,
                      !.i = @ + 1]
    /\ UNCHANGED pc
    /\ FitFrame

\* `if is_whitespace(ch)`, a space: the break before it is recorded and the
\* loop goes on.
FitSpace ==
    /\ pc = "fitting"
    /\ span_st.i < Len(span_st.text)
    /\ is_whitespace(FitCh)
    /\ ~(FitCh = ASCII_LF \/ FitCh = ASCII_CR)
    /\ span_st' = [span_st EXCEPT
                      !.line = Span(span_st.i, 1, span_st.span_width, @.advance.y, FALSE),
                      !.found_any_whitespace = TRUE,
                      !.span_width = @ + FitCharWidth,
                      !.i = @ + 1]
    /\ UNCHANGED pc
    /\ FitFrame

\* A variant that advances by the full line height for CR too.
FitNewline_full_line_height ==
    /\ pc = "fitting"
    /\ span_st.i < Len(span_st.text)
    /\ is_whitespace(FitCh)
    /\ FitCh = ASCII_LF \/ FitCh = ASCII_CR
    /\ LET line == Span(span_st.i, 1, span_st.span_width, span_st.line.advance.y, FALSE)
       IN  span_st' = [span_st EXCEPT !.line = line, !.result = line, !.how = "newline"]
    /\ pc' = "fit_done"
    /\ FitFrame

\* `if is_whitespace(ch)`, LF or CR: "End of line, break immediately."
FitNewline ==
    /\ pc = "fitting"
    /\ span_st.i < Len(span_st.text)
    /\ is_whitespace(FitCh)
    /\ FitCh = ASCII_LF \/ FitCh = ASCII_CR
    /\ LET line == Span(span_st.i, 1, span_st.span_width,
                        IF FitCh = ASCII_CR THEN LineHeight(span_st.text_font) \div 2
                                            ELSE span_st.line.advance.y,
                        FALSE)
       IN  span_st' = [span_st EXCEPT !.line = line, !.result = line, !.how = "newline"]
    /\ pc' = "fit_done"
    /\ FitFrame

\* `else if span_width + char_width > max_width`: "Return the last
\* breakpoint."
FitOverflow ==
    /\ pc = "fitting"
    /\ span_st.i < Len(span_st.text)
    /\ ~is_whitespace(FitCh)
    /\ span_st.span_width + FitCharWidth > span_st.max_width
    /\ span_st' = [span_st EXCEPT !.result = span_st.line, !.how = "overflow"]
    /\ pc' = "fit_done"
    /\ FitFrame

\* A variant that records the hyphen break without resetting
\* skip_next_chars.
FitGlyph_keeps_skip ==
    /\ pc = "fitting"
    /\ span_st.i < Len(span_st.text)
    /\ ~is_whitespace(FitCh)
    /\ ~(span_st.span_width + FitCharWidth > span_st.max_width)
    /\ span_st' = [span_st EXCEPT
                      !.line = IF /\ have_space_for_break(span_st.span_width, FitCharWidth,
                                                          span_st.hyphen_width, span_st.max_width)
                                  /\ can_break_word(span_st.breaking,
                                                    span_st.found_any_whitespace)
                               THEN Span(span_st.i + 1, @.skip_next_chars,
                                         span_st.span_width + FitCharWidth, @.advance.y, TRUE)
                               ELSE @,
                      !.span_width = @ + FitCharWidth,
                      !.i = @ + 1]
    /\ UNCHANGED pc
    /\ FitFrame

\* `else`: the glyph fits; the break after it is recorded if there is room
\* for the hyphen and the word may be broken.
FitGlyph ==
    /\ pc = "fitting"
    /\ span_st.i < Len(span_st.text)
    /\ ~is_whitespace(FitCh)
    /\ ~(span_st.span_width + FitCharWidth > span_st.max_width)
    /\ span_st' = [span_st EXCEPT
                      !.line = IF /\ have_space_for_break(span_st.span_width, FitCharWidth,
                                                          span_st.hyphen_width, span_st.max_width)
                                  /\ can_break_word(span_st.breaking,
                                                    span_st.found_any_whitespace)
                               THEN Span(span_st.i + 1, 0, span_st.span_width + FitCharWidth,
                                         @.advance.y, TRUE)
                               ELSE @,
                      !.span_width = @ + FitCharWidth,
                      !.i = @ + 1]
    /\ UNCHANGED pc
    /\ FitFrame

\* A variant that returns the last recorded break at the end of the text too.
FitWhole_returns_last_break ==
    /\ pc = "fitting"
    /\ span_st.i >= Len(span_st.text)
    /\ span_st' = [span_st EXCEPT !.result = span_st.line, !.how = "whole"]
    /\ pc' = "fit_done"
    /\ FitFrame

\* The loop has run through the text: "The whole text is fitting."
FitWhole ==
    /\ pc = "fitting"
    /\ span_st.i >= Len(span_st.text)
    /\ span_st' = [span_st EXCEPT
                      !.result = Span(Len(span_st.text), 0, span_st.span_width, 0, FALSE),
                      !.how = "whole"]
    /\ pc' = "fit_done"
    /\ FitFrame

FitNext ==
    \/ FitSpace
    \/ FitNewline
    \/ FitOverflow
    \/ FitGlyph
    \/ FitWhole

SpecFit == InitFit /\ [][FitNext]_vars

\* The call's result as the layout computes it.
FitCall ==
    fit_horizontally(span_st.text, span_st.max_width, span_st.text_font,
                     span_st.hyphen_font, span_st.breaking)

\* The loop, step by step, returns the Span of fit_horizontally.
FitStepsAgree == pc = "fit_done" => span_st.result = FitCall

(***************************************************************************)
(* Properties of Span::fit_horizontally.                                   *)
(***************************************************************************)
\* The offset (0-based) of the first LF or CR of a text, or -1.
FirstNewline(t) ==
    IF \E k \in 1..Len(t) : t[k] \in {ASCII_LF, ASCII_CR}
    THEN (CHOOSE k \in 1..Len(t) :
             /\ t[k] \in {ASCII_LF, ASCII_CR}
             /\ \A j \in 1..(k - 1) : t[j] \notin {ASCII_LF, ASCII_CR}) - 1
    ELSE -1

\* The width of the first n bytes of the call's text.
PrefixWidth(n) == RunWidth(span_st.text_font, SubSeq(span_st.text, 1, n))

\* What C13 says of a text whose first LF or CR is at offset i.
NewlineSpanAt(i) ==
    /\ span_st.result.length = i
    /\ span_st.result.skip_next_chars = 1
    /\ ~span_st.result.insert_hyphen_before_line_break
    /\ span_st.result.advance.y =
          IF span_st.text[i + 1] = ASCII_LF
          THEN LineHeight(span_st.text_font)
          ELSE LineHeight(span_st.text_font) \div 2

\* No non-whitespace byte before offset i overflows max_width.
NoOverflowBefore(i) ==
    \A j \in 1..i : ~is_whitespace(span_st.text[j]) => PrefixWidth(j) <= span_st.max_width

\* C13 as stated: for every text whose first LF or CR is at offset i, every
\* max_width and either policy, the Span has length i, skip_next_chars 1, no
\* hyphen, and the vertical advance of the line height (LF) or of half of it
\* (CR).
C13_NewlineAlwaysForces ==
    (pc = "fit_done" /\ FirstNewline(span_st.text) >= 0) =>
        NewlineSpanAt(FirstNewline(span_st.text))

\* C13, amended: the same for every text whose first LF or CR is at offset i
\* and in which no non-whitespace byte before offset i overflows max_width;
\* if one does, the call returns at that byte, with a length below i.
C13_NewlineForcesUnlessOverflow ==
    (pc = "fit_done" /\ FirstNewline(span_st.text) >= 0) =>
        LET i == FirstNewline(span_st.text)
        IN  IF NoOverflowBefore(i)
            THEN span_st.how = "newline" /\ NewlineSpanAt(i)
            ELSE span_st.how = "overflow" /\ span_st.result.length < i

\* C13's case: a CR after a space and a glyph, in a font whose line height is
\* odd, has ended the call.
C13_Witness ==
    /\ pc = "fit_done"
    /\ span_st.how = "newline"
    /\ span_st.text = <<ASCII_SPACE, 97, ASCII_CR>>
    /\ LineHeight(span_st.text_font) = 3
    /\ span_st.result = Span(2, 1, PrefixWidth(2), 1, FALSE)

\* C14: for every Span returned with max_width >= 0, the run text[..length]
\* fits the budget: its width is the returned advance.x, and it is at most
\* max_width, also for texts with several spaces in a row or spaces at the
\* end.
C14_SpanFitsBudget ==
    (pc = "fit_done" /\ span_st.max_width >= 0) =>
        /\ span_st.result.advance.x = PrefixWidth(span_st.result.length)
        /\ span_st.result.advance.x <= span_st.max_width

\* A break is recorded at offset j (0-based) of the call's text: before a
\* whitespace; or after a glyph that leaves room for the hyphen, if the
\* policy breaks words or no whitespace comes before it.
WhitespaceCandidateAt(j) == is_whitespace(span_st.text[j + 1])

HyphenCandidateAt(j) ==
    /\ ~is_whitespace(span_st.text[j + 1])
    /\ PrefixWidth(j + 1) + TextWidth(span_st.hyphen_font, ASCII_HYPHEN) <= span_st.max_width
    /\ \/ span_st.breaking = "BreakWordsAndInsertHyphen"
       \/ \A k \in 1..j : ~is_whitespace(span_st.text[k])

CandidateAt(j) == WhitespaceCandidateAt(j) \/ HyphenCandidateAt(j)

\* The Span of the candidate at the largest offset below m, or the initial
\* forced break if there is none.
LastCandidateBelow(m) ==
    LET lh == LineHeight(span_st.text_font)
    IN  IF \E j \in 0..(m - 1) : CandidateAt(j)
        THEN LET j == CHOOSE j \in 0..(m - 1) :
                          CandidateAt(j) /\ \A k \in (j + 1)..(m - 1) : ~CandidateAt(k)
             IN  IF WhitespaceCandidateAt(j)
                 THEN Span(j, 1, PrefixWidth(j), lh, FALSE)
                 ELSE Span(j + 1, 0, PrefixWidth(j + 1), lh, TRUE)
        ELSE Span(0, 0, 0, lh, FALSE)

\* C17: when fit_horizontally returns because a non-whitespace byte at index
\* m overflows max_width, the returned break is the candidate recorded at the
\* largest index below m: a whitespace at index j replaces every hyphen
\* candidate recorded before j (length j, skip 1, no hyphen), and a hyphen
\* candidate recorded after the last whitespace replaces that whitespace
\* break.
C17_LastCandidateWins ==
    (pc = "fit_done" /\ span_st.how = "overflow") =>
        /\ ~is_whitespace(span_st.text[span_st.i + 1])
        /\ span_st.result = LastCandidateBelow(span_st.i)

\* C17's case: the overflow of the glyph at index 2 has returned the break at
\* the space of index 1, which replaced the hyphen break recorded after the
\* glyph of index 0.
C17_Witness ==
    /\ pc = "fit_done"
    /\ span_st.how = "overflow"
    /\ span_st.i = 2
    /\ HyphenCandidateAt(0)
    /\ WhitespaceCandidateAt(1)
    /\ span_st.result = Span(1, 1, PrefixWidth(1), LineHeight(span_st.text_font), FALSE)

\* The offsets below n of the call's text that hold a whitespace.
WhitespaceBelow(n) == {j \in 0..(n - 1) : is_whitespace(span_st.text[j + 1])}

Max(S) == CHOOSE x \in S : \A y \in S : y <= x

\* Under BreakWordsAndInsertHyphen some call returns a hyphen break that
\* follows a whitespace.
HyphenAfterWhitespaceHappens ==
    \E t \in FitFixtures, w \in 0..MaxWidth :
        LET s == fit_horizontally(t, w, FONT_NORMAL, FONT_NORMAL, "BreakWordsAndInsertHyphen")
        IN  /\ s.insert_hyphen_before_line_break
            /\ \E j \in 1..s.length : is_whitespace(t[j])

\* C18: under BreakAtWhitespace a returned Span has
\* insert_hyphen_before_line_break only if the bytes scanned before the
\* overflowing byte hold no whitespace; once a space has been scanned, an
\* overflow breaks at the last scanned whitespace, without a hyphen.  Under
\* BreakWordsAndInsertHyphen a hyphen break can follow a whitespace.
C18_HyphenOnlyBeforeWhitespace ==
    /\ (pc = "fit_done" /\ span_st.breaking = "BreakAtWhitespace") =>
          /\ span_st.result.insert_hyphen_before_line_break =>
                /\ span_st.how = "overflow"
                /\ WhitespaceBelow(span_st.i) = {}
          /\ (span_st.how = "overflow" /\ WhitespaceBelow(span_st.i) # {}) =>
                LET j == Max(WhitespaceBelow(span_st.i))
                IN  span_st.result =
                        Span(j, 1, PrefixWidth(j), LineHeight(span_st.text_font), FALSE)
    /\ HyphenAfterWhitespaceHappens

\* C18's case: under BreakAtWhitespace an overflow has returned the break at
\* a space although a glyph scanned after that space left room for the
\* hyphen.
C18_Witness ==
    /\ pc = "fit_done"
    /\ span_st.breaking = "BreakAtWhitespace"
    /\ span_st.how = "overflow"
    /\ span_st.result.skip_next_chars = 1
    /\ ~span_st.result.insert_hyphen_before_line_break
    /\ \E j \in (span_st.result.length + 1)..(span_st.i - 1) :
          /\ ~is_whitespace(span_st.text[j + 1])
          /\ PrefixWidth(j + 1) + span_st.hyphen_width <= span_st.max_width

\* C19: in every Span returned, skip_next_chars is 0 or 1, and it is 1 only
\* on a whitespace break: then length < text.len(), the byte text[length] is
\* a space, LF or CR, and there is no hyphen; a Span with a hyphen, the
\* zero-length forced break and the whole-text Span have skip_next_chars 0.
C19_SkipOnlyOnWhitespace ==
    pc = "fit_done" =>
        LET r == span_st.result
        IN  /\ r.skip_next_chars \in {0, 1}
            /\ r.skip_next_chars = 1 =>
                  /\ r.length < Len(span_st.text)
                  /\ is_whitespace(span_st.text[r.length + 1])
                  /\ ~r.insert_hyphen_before_line_break
                  /\ span_st.how \in {"newline", "overflow"}
            /\ r.insert_hyphen_before_line_break => r.skip_next_chars = 0
            /\ span_st.how = "whole" => r.skip_next_chars = 0
            /\ (span_st.how = "overflow" /\ \A j \in 0..(span_st.i - 1) : ~CandidateAt(j)) =>
                  r = Span(0, 0, 0, LineHeight(span_st.text_font), FALSE)
            /\ (span_st.how = "newline" \/
                    (span_st.how = "overflow" /\ ~r.insert_hyphen_before_line_break
                        /\ WhitespaceBelow(span_st.i) # {})) => r.skip_next_chars = 1

\* C19's case: an overflow has returned a hyphen break recorded after a
\* whitespace break, with skip_next_chars back at 0.
C19_Witness ==
    /\ pc = "fit_done"
    /\ span_st.how = "overflow"
    /\ span_st.result.insert_hyphen_before_line_break
    /\ span_st.result.skip_next_chars = 0
    /\ WhitespaceBelow(span_st.result.length) # {}

\* The call's text holds no space, LF or CR.
NoWhitespace == \A k \in 1..Len(span_st.text) : ~is_whitespace(span_st.text[k])

\* C21: for a text that contains no space, LF or CR and whose total glyph
\* width is at most max_width, fit_horizontally returns length = text.len(),
\* skip_next_chars = 0, no hyphen and advance = (total width, 0), under either
\* line-breaking policy and whatever the hyphen width.
C21_WholeTextFits ==
    (/\ pc = "fit_done"
     /\ NoWhitespace
     /\ PrefixWidth(Len(span_st.text)) <= span_st.max_width) =>
        /\ span_st.how = "whole"
        /\ span_st.result =
              Span(Len(span_st.text), 0, PrefixWidth(Len(span_st.text)), 0, FALSE)

\* C21's case: a run of glyphs exactly as wide as max_width has been returned
\* whole, after the loop had recorded a hyphen break inside it.
C21_Witness ==
    /\ pc = "fit_done"
    /\ NoWhitespace
    /\ Len(span_st.text) >= 2
    /\ PrefixWidth(Len(span_st.text)) = span_st.max_width
    /\ span_st.line.insert_hyphen_before_line_break
    /\ span_st.result.length = Len(span_st.text)
    /\ span_st.result.advance.y = 0

\* The bytes the loop has measured when the call returns are those counted by
\* measured_bytes.
FitMeasuresAgree ==
    pc = "fit_done" =>
        measured_bytes(span_st.text, span_st.max_width, span_st.text_font) =
            IF span_st.how = "whole" THEN Len(span_st.text) ELSE span_st.i + 1

====
